---------------------------- MODULE Spec2Model ----------------------------
(***************************************************************************)
(* A model of the aerial DevKit sample client (Python 2, Tornado):         *)
(*   src/aerial/sample/api_wrapper.py   the REST client and the websocket  *)
(*                                      read loop (ApiWrapper)             *)
(*   src/aerial/sample/application.py   the commands, the error boundary   *)
(*                                      and shutdown (Application)         *)
(*   src/aerial/sample/sample.py        main() and the signal handler      *)
(*   src/aerial/sample/utils.py         the countdown timer                *)
(*                                                                         *)
(* One process runs one command.  The foreground (main thread) is a        *)
(* program counter fgPc; the detection stream is a second thread with its  *)
(* own program counter thPc running the coroutine __connect on an IOLoop;  *)
(* the train call runs on a worker of the thread pool.  The device (HTTP   *)
(* server and websocket peer) and the operating system's signals are the   *)
(* environment.                                                            *)
(***************************************************************************)
EXTENDS Naturals, Sequences, FiniteSets, TLC

(***************************************************************************)
(* Bounds of the model.                                                    *)
(***************************************************************************)
\* frames the device pushes on the websocket before it goes quiet or closes
MaxFrames == 2
\* SIGINT / SIGTERM signals the environment sends to the process
MaxSignals == 1

(***************************************************************************)
(* Program constants.                                                      *)
(***************************************************************************)
\* application.py:155  self.detection_thread.join(3)
JoinTimeout == 3
\* application.py:89   utils.print_delay(5)
DelayDuration == 5
\* application.py:91   utils.print_timer(45, task)
TimerDuration == 45

(***************************************************************************)
(* Python values.  A value is a record tagged with its type; a dict holds  *)
(* a function from its keys to values, a list a sequence of values.        *)
(***************************************************************************)
PyNone == [t |-> "None"]
PyStr(s) == [t |-> "str", s |-> s]
PyBool(b) == [t |-> "bool", b |-> b]
PyDict(f) == [t |-> "dict", f |-> f]
PyList(items) == [t |-> "list", items |-> items]
EmptyDict == PyDict([k \in {} |-> PyNone])

\* d[key] of Python: the value, or the exception the lookup raises
GetItem(d, key) ==
    IF d.t = "dict"
    THEN IF key \in DOMAIN d.f THEN [exc |-> "none", value |-> d.f[key]]
                               ELSE [exc |-> "KeyError"]
    ELSE [exc |-> "TypeError"]

\* d.get(key, None) of Python: only a dict has the method
DictGet(d, key) ==
    IF d.t = "dict"
    THEN [exc |-> "none",
          value |-> IF key \in DOMAIN d.f THEN d.f[key] ELSE PyNone]
    ELSE [exc |-> "AttributeError"]

(***************************************************************************)
(* The device's replies to an HTTP request, as the device means them, and  *)
(* the texts it puts on the wire for them.                                 *)
(***************************************************************************)
ErrorTypes == {"not_found", "busy"}
ErrorMessages == {"No such profile.", "Device is busy."}
ExpiryText == "2016-05-01T10:00:00Z"
DateText == "2016-05-01T09:00:00Z"

\* the body of an API error, {"error": {"type": ..., "message": ...}}
ErrorBodyText(type, message) ==
    CASE type = "not_found" /\ message = "No such profile." ->
           "{\"error\":{\"type\":\"not_found\",\"message\":\"No such profile.\"}}"
      [] type = "not_found" /\ message = "Device is busy." ->
           "{\"error\":{\"type\":\"not_found\",\"message\":\"Device is busy.\"}}"
      [] type = "busy" /\ message = "No such profile." ->
           "{\"error\":{\"type\":\"busy\",\"message\":\"No such profile.\"}}"
      [] type = "busy" /\ message = "Device is busy." ->
           "{\"error\":{\"type\":\"busy\",\"message\":\"Device is busy.\"}}"

\* bodies that parse as JSON but are no API error document
TextEmptyObject == "{}"
TextEmptyList == "[]"
TextErrorString == "{\"error\":\"busy\"}"
TextErrorNoMessage == "{\"error\":{\"type\":\"busy\"}}"
TextProfiles == "{\"profiles\":[\"alice\"]}"
TextProfilesExpiry == "{\"profiles\":[\"alice\"],\"expiry\":\"2016-05-01T10:00:00Z\"}"
TextProfilesNull == "{\"profiles\":null}"
TextDate == "{\"date\":\"2016-05-01T09:00:00Z\"}"
TextProfileList == "[{\"name\":\"alice\",\"enabled\":true,\"trainingSets\":[]}]"
\* a detection result frame
TextDetection == "{\"results\":\"Presence detected\"}"
\* a body that is not JSON
TextHtml == "<html>Bad Gateway</html>"

JsonErrorTexts == {ErrorBodyText(ty, m) : ty \in ErrorTypes, m \in ErrorMessages}
JsonOtherTexts ==
    {TextEmptyObject, TextEmptyList, TextErrorString, TextErrorNoMessage,
     TextProfiles, TextProfilesExpiry, TextProfilesNull, TextDate, TextProfileList,
     TextDetection}

\* The document a JSON text denotes (what json.loads returns for it).
JsonDocument(text) ==
    CASE text = "{\"error\":{\"type\":\"not_found\",\"message\":\"No such profile.\"}}" ->
           PyDict("error" :> PyDict("type" :> PyStr("not_found")
                                    @@ "message" :> PyStr("No such profile.")))
      [] text = "{\"error\":{\"type\":\"not_found\",\"message\":\"Device is busy.\"}}" ->
           PyDict("error" :> PyDict("type" :> PyStr("not_found")
                                    @@ "message" :> PyStr("Device is busy.")))
      [] text = "{\"error\":{\"type\":\"busy\",\"message\":\"No such profile.\"}}" ->
           PyDict("error" :> PyDict("type" :> PyStr("busy")
                                    @@ "message" :> PyStr("No such profile.")))
      [] text = "{\"error\":{\"type\":\"busy\",\"message\":\"Device is busy.\"}}" ->
           PyDict("error" :> PyDict("type" :> PyStr("busy")
                                    @@ "message" :> PyStr("Device is busy.")))
      [] text = "{}" -> EmptyDict
      [] text = "[]" -> PyList(<<>>)
      [] text = "{\"error\":\"busy\"}" -> PyDict("error" :> PyStr("busy"))
      [] text = "{\"error\":{\"type\":\"busy\"}}" ->
           PyDict("error" :> PyDict("type" :> PyStr("busy")))
      [] text = "{\"profiles\":[\"alice\"]}" ->
           PyDict("profiles" :> PyList(<<PyStr("alice")>>))
      [] text = "{\"profiles\":[\"alice\"],\"expiry\":\"2016-05-01T10:00:00Z\"}" ->
           PyDict("profiles" :> PyList(<<PyStr("alice")>>)
                  @@ "expiry" :> PyStr(ExpiryText))
      [] text = "{\"profiles\":null}" -> PyDict("profiles" :> PyNone)
      [] text = "{\"date\":\"2016-05-01T09:00:00Z\"}" ->
           PyDict("date" :> PyStr(DateText))
      [] text = "[{\"name\":\"alice\",\"enabled\":true,\"trainingSets\":[]}]" ->
           PyList(<<PyDict("name" :> PyStr("alice") @@ "enabled" :> PyBool(TRUE)
                           @@ "trainingSets" :> PyList(<<>>))>>)
      [] text = "{\"results\":\"Presence detected\"}" ->
           PyDict("results" :> PyStr("Presence detected"))

\* json.loads(s): the document, ValueError for a text that is not JSON (the empty
\* string included), TypeError for an argument that is no string
JsonLoads(s) ==
    IF s.t # "str" THEN [exc |-> "TypeError"]
    ELSE IF s.s \in JsonErrorTexts \cup JsonOtherTexts
         THEN [exc |-> "none", value |-> JsonDocument(s.s)]
         ELSE [exc |-> "ValueError"]

(***************************************************************************)
(* What the device does with a request: the ground truth of a reply.       *)
(*   api_error     a non-2xx status with a well-formed error document      *)
(*   http_error    a non-2xx status with some other body                   *)
(*   timeout       no response at all (Tornado's HTTPError 599, whose      *)
(*                 response is None)                                       *)
(*   refused       the connection fails (socket.error)                     *)
(*   ok            a 2xx status with a body                                *)
(***************************************************************************)
ErrorBodies ==
    {PyNone, PyStr(""), PyStr(TextHtml), PyStr(TextEmptyObject), PyStr(TextEmptyList),
     PyStr(TextErrorString), PyStr(TextErrorNoMessage)}
OkBodies ==
    {PyNone, PyStr(""), PyStr(TextHtml), PyStr(TextEmptyObject), PyStr(TextEmptyList),
     PyStr(TextProfiles), PyStr(TextProfilesExpiry), PyStr(TextProfilesNull),
     PyStr(TextDate), PyStr(TextProfileList)}

Replies ==
    {[kind |-> "api_error", type |-> ty, message |-> m] :
        ty \in ErrorTypes, m \in ErrorMessages}
    \cup {[kind |-> "http_error", body |-> b] : b \in ErrorBodies}
    \cup {[kind |-> "timeout"], [kind |-> "refused"]}
    \cup {[kind |-> "ok", body |-> b] : b \in OkBodies}

NoReply == [kind |-> "no_request"]

\* What self.client.fetch does for a reply: it returns the response of a 2xx status,
\* raises HTTPError (carrying the response, if any) otherwise, or raises socket.error.
Fetch(reply) ==
    CASE reply.kind = "api_error" ->
           [exc |-> "HTTPError",
            response |-> [body |-> PyStr(ErrorBodyText(reply.type, reply.message))]]
      [] reply.kind = "http_error" ->
           [exc |-> "HTTPError", response |-> [body |-> reply.body]]
      [] reply.kind = "timeout" -> [exc |-> "HTTPError", response |-> PyNone]
      [] reply.kind = "refused" -> [exc |-> "socket.error"]
      [] reply.kind = "ok" -> [exc |-> "none", response |-> [body |-> reply.body]]

(***************************************************************************)
(* ApiWrapper.__http_request                                               *)
(***************************************************************************)
AerialException(type, message) ==
    [exc |-> "AerialException", type |-> type, message |-> message]
Returned(value) == [exc |-> "none", value |-> value]
Raised(kind) == [exc |-> kind]

\* Lines 182-184, the body of the inner try: the AerialException built from the
\* error response, or the exception one of its steps raises.
ConvertError(response) ==
    IF response = PyNone THEN Raised("AttributeError")   \* None has no .body
    ELSE LET doc == JsonLoads(response.body) IN
         IF doc.exc # "none" THEN Raised(doc.exc)
         ELSE LET aerial_error == GetItem(doc.value, "error") IN
              IF aerial_error.exc # "none" THEN Raised(aerial_error.exc)
              ELSE LET ty == GetItem(aerial_error.value, "type") IN
                   IF ty.exc # "none" THEN Raised(ty.exc)
                   ELSE LET msg == GetItem(aerial_error.value, "message") IN
                        IF msg.exc # "none" THEN Raised(msg.exc)
                        ELSE AerialException(ty.value.s, msg.value.s)

\* HandleHTTPError with the conversion lost: the caught HTTPError is raised
HandleHTTPError_RaiseCaught(response) == Raised("HTTPError")

\* HandleHTTPError without the finally clause: whatever the conversion ends
\* with, its own exception included, leaves the request
HandleHTTPError_NoFinally(response) == ConvertError(response)

\* Lines 179-187: `finally: raise error` raises whatever `error` is bound to when
\* the inner try is left: the AerialException if line 184 completed, else the
\* HTTPError it caught, which replaces the exception of the failed conversion.
HandleHTTPError(response) ==
    LET converted == ConvertError(response) IN
    IF converted.exc = "AerialException" THEN converted ELSE Raised("HTTPError")

\* ParseResponse without the test for an empty body: every body is parsed
ParseResponse_AlwaysParse(response) ==
    LET doc == JsonLoads(response.body) IN
    IF doc.exc # "none"
    THEN AerialException("malformed_response",
             "An unexpected response has been received from the server.")
    ELSE doc

\* ParseResponse without the except clause of lines 193-197: ValueError leaves it
ParseResponse_NoExcept(response) ==
    IF response.body # PyNone /\ response.body # PyStr("")
    THEN JsonLoads(response.body)
    ELSE Returned(PyNone)

\* Lines 188-197: the parsed body, None for no body, malformed_response otherwise.
ParseResponse(response) ==
    IF response.body # PyNone /\ response.body # PyStr("")
    THEN LET doc == JsonLoads(response.body) IN
         IF doc.exc = "ValueError"
         THEN AerialException("malformed_response",
                  "An unexpected response has been received from the server.")
         ELSE doc
    ELSE Returned(PyNone)

\* Lines 176-197: the outcome of a request whose fetch ended as `fetched`.
HttpRequest(fetched) ==
    CASE fetched.exc = "HTTPError" -> HandleHTTPError(fetched.response)
      [] fetched.exc = "none" -> ParseResponse(fetched.response)
      [] OTHER -> Raised(fetched.exc)


(***************************************************************************)
(* The state of the process.                                               *)
(***************************************************************************)
VARIABLES
    fgPc,               \* where the main thread is (main, a command, the handler)
    cmd,                \* the command the arguments select ("none" before parsing)
    app,                \* sample.py: the global app is not None
    reply,              \* what the device did with the command's HTTP request
    outcome,            \* how ApiWrapper.__http_request ended for that request
    terminal,           \* the lines printed that the properties speak about
    exitCode,           \* the exit code of the process once fgPc = "exited"
    uncaught,           \* the exception that left the command, "none" if none did
    stop_detection,     \* ApiWrapper.__stop_detection
    executor_shutdown,  \* the pool was shut down (it refuses new work)
    detection_thread,   \* Application.detection_thread: "None" or "thread"
    joinWaited,         \* seconds the current join(3) has waited
    pendingSignals,     \* signals sent whose handler Python has yet to start
    signalsSent,        \* SIGINT/SIGTERM signals sent so far
    alarmArmed,         \* signal.alarm(1) is counting down
    task,               \* the train call's future: "none", "pending", "running", "done"
    step,               \* the countdown's loop variable
    thPc,               \* where the stream thread is in __connect
    socket,             \* the websocket: "none", "open", "closed"
    message_future,     \* the future of the last socket.read_message()
    read_queue,         \* messages Tornado received while no read was pending
    wire,               \* messages the peer sent that the IOLoop has yet to process
    sent,               \* every frame the peer sent, in order
    peerClosed,         \* the peer closed the connection
    calls,              \* the frames the listener was invoked with, in order
    alarmCalls,         \* how often the loop called signal.alarm
    sawStop,            \* the loop has read the stop flag as set
    stopRequested,      \* ApiWrapper.stop() has been called
    wakeSinceStop       \* poll wake-ups of the loop since stop() was called

fgVars == <<fgPc, cmd, app, reply, outcome, terminal, exitCode, uncaught>>
shutdownVars == <<executor_shutdown, detection_thread, joinWaited>>
signalVars == <<pendingSignals, signalsSent>>
trainVars == <<task, step>>
streamVars == <<thPc, socket, message_future, read_queue, calls, sawStop, wakeSinceStop>>
peerVars == <<wire, sent, peerClosed>>
vars == <<fgPc, cmd, app, reply, outcome, terminal, exitCode, uncaught,
          stop_detection, executor_shutdown, detection_thread, joinWaited,
          pendingSignals, signalsSent, alarmArmed, task, step,
          thPc, socket, message_future, read_queue, wire, sent, peerClosed,
          calls, alarmCalls, sawStop, stopRequested, wakeSinceStop>>

Commands == {"list", "reset", "train", "enable", "disable", "detect_home", "detect_room"}

NoFuture == [state |-> "none"]
PendingFuture == [state |-> "pending"]
DoneFuture(result) == [state |-> "done", result |-> result]

\* Application.__init__, ApiWrapper.__init__: no stream, no task, no signal yet
InitRest ==
    /\ exitCode = 0
    /\ uncaught = "none"
    /\ stop_detection = FALSE
    /\ executor_shutdown = FALSE
    /\ detection_thread = "None"
    /\ joinWaited = 0
    /\ pendingSignals = {}
    /\ signalsSent = 0
    /\ alarmArmed = FALSE
    /\ task = "none"
    /\ step = 0
    /\ thPc = "idle"
    /\ socket = "none"
    /\ message_future = NoFuture
    /\ read_queue = <<>>
    /\ wire = <<>>
    /\ sent = <<>>
    /\ peerClosed = FALSE
    /\ calls = <<>>
    /\ alarmCalls = 0
    /\ sawStop = FALSE
    /\ stopRequested = FALSE
    /\ wakeSinceStop = 0

\* sample.py:31 and 68: main() starts, app is None
Init ==
    /\ fgPc = "main"
    /\ cmd = "none"
    /\ app = FALSE
    /\ reply = NoReply
    /\ outcome = Returned(PyNone)
    /\ terminal = <<>>
    /\ InitRest

(***************************************************************************)
(* Terminal output.                                                        *)
(***************************************************************************)
\* utils.print_api_error: the label is type.replace('_', ' ').upper()
ErrorLabel(type) ==
    CASE type = "not_found" -> "NOT FOUND"
      [] type = "busy" -> "BUSY"
      [] type = "malformed_response" -> "MALFORMED RESPONSE"
      [] type = "unknown_error" -> "UNKNOWN ERROR"
      [] type = "socket_error" -> "SOCKET ERROR"

print_api_error(e) ==
    [line |-> "error", label |-> ErrorLabel(e.type), type |-> e.type,
     message |-> e.message]

Line(text) == [line |-> "text", text |-> text]

(***************************************************************************)
(* handle_api_errors: what the wrapper does with the way the wrapped       *)
(* command ended.  `ended` is [exc, lines]: the exception that left the    *)
(* command ("none" if it returned) and the lines it printed before.        *)
(***************************************************************************)
\* '{0}.'.format(socket_error.strerror) for a refused connection
SocketErrorMessage == "Connection refused."

Caught(ended) ==
    CASE ended.exc = "AerialException" ->
           [lines |-> Append(ended.lines,
                             print_api_error([type |-> ended.type,
                                              message |-> ended.message])),
            propagated |-> "none"]
      [] ended.exc = "socket.error" ->
           [lines |-> Append(ended.lines,
                             print_api_error([type |-> "socket_error",
                                              message |-> SocketErrorMessage])),
            propagated |-> "none"]
      [] ended.exc = "none" -> [lines |-> ended.lines, propagated |-> "none"]
      [] OTHER -> [lines |-> ended.lines, propagated |-> ended.exc]

Ended(result, lines) ==
    IF result.exc = "AerialException"
    THEN [exc |-> "AerialException", type |-> result.type,
          message |-> result.message, lines |-> lines]
    ELSE [exc |-> result.exc, lines |-> lines]

(***************************************************************************)
(* The bodies of the commands of Application, from the outcome of their    *)
(* request on: how the command ends (Ended) before handle_api_errors.      *)
(***************************************************************************)
ProfileName == "alice"

\* utils.format_datetime: the UTC text rendered in local time, in one of two formats
format_datetime(date, format) == [utc |-> date, format |-> format]

\* utils.print_profile(p): the exception its lookups raise, "none" if it prints
print_profile(p) ==
    LET enabled == GetItem(p, "enabled")
        name == GetItem(p, "name")
        sets == GetItem(p, "trainingSets")
    IN  IF enabled.exc # "none" THEN enabled.exc
        ELSE IF name.exc # "none" THEN name.exc
        ELSE IF sets.exc # "none" THEN sets.exc
        ELSE "none"

\* application.py:68-69: for p in result: utils.print_profile(p)
RECURSIVE PrintProfiles(_, _)
PrintProfiles(items, lines) ==
    IF items = <<>> THEN [exc |-> "none", lines |-> lines]
    ELSE LET e == print_profile(Head(items)) IN
         IF e # "none" THEN [exc |-> e, lines |-> lines]
         ELSE PrintProfiles(Tail(items),
                  Append(lines, [line |-> "profile",
                                 name |-> Head(items).f["name"].s]))

\* Application.list_profiles, lines 67-69
list_profiles(result) ==
    IF result.exc # "none" THEN Ended(result, <<>>)
    ELSE CASE result.value.t = "list" -> PrintProfiles(result.value.items, <<>>)
           \* iterating a dict yields its keys, strings, which print_profile indexes
           [] result.value.t = "dict" ->
                [exc |-> IF DOMAIN result.value.f = {} THEN "none" ELSE "TypeError",
                 lines |-> <<>>]
           \* None is not iterable
           [] OTHER -> [exc |-> "TypeError", lines |-> <<>>]

\* Application.reset, lines 77-78
reset(result) ==
    IF result.exc # "none" THEN Ended(result, <<>>)
    ELSE [exc |-> "none", lines |-> <<Line("All profiles are reset.")>>]

\* Application.enable and Application.disable, lines 103-104 and 113-114
change_status(result, enabled) ==
    IF result.exc # "none" THEN Ended(result, <<>>)
    ELSE [exc |-> "none",
          lines |-> <<Line(IF enabled THEN "Profile is enabled."
                                      ELSE "Profile is disabled.")>>]

\* Application.train, lines 92-94, from task.result() on: the call's exception is
\* raised again in the foreground
train_result(result) ==
    IF result.exc # "none" THEN Ended(result, <<>>)
    ELSE IF result.value = PyNone THEN [exc |-> "none", lines |-> <<>>]
    ELSE LET date == GetItem(result.value, "date") IN
         IF date.exc # "none" THEN [exc |-> date.exc, lines |-> <<>>]
         ELSE [exc |-> "none",
               lines |-> <<[line |-> "trained", profile |-> ProfileName,
                            date |-> format_datetime(date.value.s, "full")]>>]

\* Application.detect, lines 128-140, up to the start of the stream
detect_initialize(result, mode) ==
    LET first == <<Line("Initializing...")>> IN
    IF result.exc # "none" THEN Ended(result, first)
    ELSE LET profiles == DictGet(result.value, "profiles") IN
         IF profiles.exc # "none" THEN [exc |-> profiles.exc, lines |-> first]
         ELSE IF profiles.value = PyNone
         THEN Ended(AerialException("unknown_error",
                  "Unexpected response received from server during initialization."),
                  first)
         ELSE LET expiry == DictGet(result.value, "expiry").value IN
              IF mode = "room" /\ expiry # PyNone
              THEN [exc |-> "none",
                    lines |-> Append(first,
                        [line |-> "begin",
                         expires |-> format_datetime(expiry.s, "time")])]
              ELSE [exc |-> "none", lines |-> Append(first, [line |-> "begin"])]

(***************************************************************************)
(* main() and the request-style commands.                                  *)
(***************************************************************************)
\* A command wrapped by handle_api_errors ends: a caught error is printed and main
\* goes on to its last line; any other exception leaves main, and Python ends the
\* process with a traceback and exit code 1.
CommandEnds(ended) ==
    LET c == Caught(ended) IN
    /\ terminal' = terminal \o c.lines
    /\ uncaught' = c.propagated
    /\ IF c.propagated = "none"
       THEN fgPc' = "main_print" /\ exitCode' = exitCode
       ELSE fgPc' = "exited" /\ exitCode' = 1

\* sample.py:77-79  signal.signal(SIGINT / SIGTERM / SIGALRM, signal_handler)
InstallHandlers ==
    /\ fgPc = "main"
    /\ fgPc' = "parse"
    /\ UNCHANGED <<cmd, app, reply, outcome, terminal, exitCode, uncaught,
                   stop_detection, shutdownVars, signalVars, alarmArmed, trainVars,
                   streamVars, peerVars, alarmCalls, stopRequested>>

\* sample.py:82  parse_arguments(): exactly one command flag
ParseArguments ==
    /\ fgPc = "parse"
    /\ \E c \in Commands : cmd' = c
    /\ fgPc' = "create"
    /\ UNCHANGED <<app, reply, outcome, terminal, exitCode, uncaught,
                   stop_detection, shutdownVars, signalVars, alarmArmed, trainVars,
                   streamVars, peerVars, alarmCalls, stopRequested>>

\* sample.py:86-112  app = Application(...), then the dispatch on the command;
\* application.py:89  train starts with utils.print_delay(5)
CreateApplication ==
    /\ fgPc = "create"
    /\ app' = TRUE
    /\ fgPc' = CASE cmd \in {"list", "reset", "enable", "disable"} -> "request"
                 [] cmd = "train" -> "train_delay"
                 [] cmd \in {"detect_home", "detect_room"} -> "detect_init"
    /\ step' = IF cmd = "train" THEN DelayDuration ELSE step
    /\ UNCHANGED <<cmd, reply, outcome, terminal, exitCode, uncaught,
                   stop_detection, shutdownVars, signalVars, alarmArmed, task,
                   streamVars, peerVars, alarmCalls, stopRequested>>

\* A request-style command: the request `r` is answered, the command's body ends
\* as `ended`, and handle_api_errors takes over.
RequestEnds(r, ended) ==
    /\ fgPc = "request"
    /\ reply' = r
    /\ outcome' = HttpRequest(Fetch(r))
    /\ CommandEnds(ended)
    /\ UNCHANGED <<cmd, app, stop_detection, shutdownVars, signalVars, alarmArmed,
                   trainVars, streamVars, peerVars, alarmCalls, stopRequested>>

\* Application.list_profiles (api_wrapper.py:67 under application.py:62-69)
ListProfiles ==
    /\ cmd = "list"
    /\ \E r \in Replies : RequestEnds(r, list_profiles(HttpRequest(Fetch(r))))

\* Application.reset (api_wrapper.py:74 under application.py:72-78)
Reset ==
    /\ cmd = "reset"
    /\ \E r \in Replies : RequestEnds(r, reset(HttpRequest(Fetch(r))))

\* Application.enable (api_wrapper.py:93-95 under application.py:97-104)
Enable ==
    /\ cmd = "enable"
    /\ \E r \in Replies : RequestEnds(r, change_status(HttpRequest(Fetch(r)), TRUE))

\* Application.disable (api_wrapper.py:93-95 under application.py:107-114)
Disable ==
    /\ cmd = "disable"
    /\ \E r \in Replies : RequestEnds(r, change_status(HttpRequest(Fetch(r)), FALSE))

\* sample.py:114  print '' and main returns: the process exits with code 0
MainReturns ==
    /\ fgPc = "main_print"
    /\ fgPc' = "exited"
    /\ exitCode' = 0
    /\ UNCHANGED <<cmd, app, reply, outcome, terminal, uncaught,
                   stop_detection, shutdownVars, signalVars, alarmArmed, trainVars,
                   streamVars, peerVars, alarmCalls, stopRequested>>

(***************************************************************************)
(* Application.train with utils.__timer and the pool's worker.             *)
(***************************************************************************)
\* utils.py:157-162 under print_delay: no task, so every tick is waited for
DelayTick ==
    /\ fgPc = "train_delay"
    /\ step' = step - 1
    /\ fgPc' = IF step - 1 = 0 THEN "train_submit" ELSE "train_delay"
    /\ UNCHANGED <<cmd, app, reply, outcome, terminal, exitCode, uncaught,
                   stop_detection, shutdownVars, signalVars, alarmArmed, task,
                   streamVars, peerVars, alarmCalls, stopRequested>>

\* application.py:90-91  task = self.executor.submit(...); utils.print_timer(45, task)
TrainSubmit ==
    /\ fgPc = "train_submit"
    /\ task' = "pending"
    /\ step' = TimerDuration
    /\ fgPc' = "train_timer"
    /\ UNCHANGED <<cmd, app, reply, outcome, terminal, exitCode, uncaught,
                   stop_detection, shutdownVars, signalVars, alarmArmed,
                   streamVars, peerVars, alarmCalls, stopRequested>>

\* a worker of the pool takes the task: Future.running() is true from here on
WorkerStart ==
    /\ task = "pending"
    /\ task' = "running"
    /\ UNCHANGED <<fgVars, stop_detection, shutdownVars, signalVars, alarmArmed, step,
                   streamVars, peerVars, alarmCalls, stopRequested>>

\* api_wrapper.py:83-84 on the worker: ApiWrapper.train's request ends
WorkerFinish ==
    /\ task = "running"
    /\ \E r \in Replies :
          /\ reply' = r
          /\ outcome' = HttpRequest(Fetch(r))
    /\ task' = "done"
    /\ UNCHANGED <<fgPc, cmd, app, terminal, exitCode, uncaught,
                   stop_detection, shutdownVars, signalVars, alarmArmed, step,
                   streamVars, peerVars, alarmCalls, stopRequested>>

\* utils.py:157-162 under print_timer: one tick, then the check of the task
TimerTick ==
    /\ fgPc = "train_timer"
    /\ IF task # "running"
       THEN fgPc' = "train_result" /\ step' = step
       ELSE /\ step' = step - 1
            /\ fgPc' = IF step - 1 = 0 THEN "train_result" ELSE "train_timer"
    /\ UNCHANGED <<cmd, app, reply, outcome, terminal, exitCode, uncaught,
                   stop_detection, shutdownVars, signalVars, alarmArmed, task,
                   streamVars, peerVars, alarmCalls, stopRequested>>

\* TrainResult that does not wait: the result is taken as it is when the
\* countdown ends
TrainResult_NoWait ==
    /\ fgPc = "train_result"
    /\ CommandEnds(train_result(outcome))
    /\ UNCHANGED <<cmd, app, reply, outcome,
                   stop_detection, shutdownVars, signalVars, alarmArmed, trainVars,
                   streamVars, peerVars, alarmCalls, stopRequested>>

\* application.py:92-94  task.result() blocks until the call has finished
TrainResult ==
    /\ fgPc = "train_result"
    /\ task = "done"
    /\ CommandEnds(train_result(outcome))
    /\ UNCHANGED <<cmd, app, reply, outcome,
                   stop_detection, shutdownVars, signalVars, alarmArmed, trainVars,
                   streamVars, peerVars, alarmCalls, stopRequested>>

(***************************************************************************)
(* Application.detect, foreground side.                                    *)
(***************************************************************************)
Mode == IF cmd = "detect_room" THEN "room" ELSE "home"

\* application.py:128-140  initialize, the check of the response, the banner
DetectInitialize ==
    /\ fgPc = "detect_init"
    /\ \E r \in Replies :
          LET result == HttpRequest(Fetch(r))
              ended == detect_initialize(result, Mode)
          IN  /\ reply' = r
              /\ outcome' = result
              /\ IF ended.exc # "none"
                 THEN CommandEnds(ended)
                 ELSE /\ terminal' = terminal \o ended.lines
                      /\ fgPc' = "detect_start"
                      /\ UNCHANGED <<exitCode, uncaught>>
    /\ UNCHANGED <<cmd, app, stop_detection, shutdownVars, signalVars, alarmArmed,
                   trainVars, streamVars, peerVars, alarmCalls, stopRequested>>

\* api_wrapper.py:148-150  ApiWrapper.detect: the thread is created and started
DetectStartStream ==
    /\ fgPc = "detect_start"
    /\ thPc' = "connect"
    /\ fgPc' = "detect_assign"
    /\ UNCHANGED <<cmd, app, reply, outcome, terminal, exitCode, uncaught,
                   stop_detection, shutdownVars, signalVars, alarmArmed, trainVars,
                   socket, message_future, read_queue, calls, sawStop, wakeSinceStop,
                   peerVars, alarmCalls, stopRequested>>

\* application.py:143-144  self.detection_thread = <the thread>; signal.pause()
DetectAssign ==
    /\ fgPc = "detect_assign"
    /\ detection_thread' = "thread"
    /\ fgPc' = "pause"
    /\ UNCHANGED <<cmd, app, reply, outcome, terminal, exitCode, uncaught,
                   stop_detection, executor_shutdown, joinWaited, signalVars,
                   alarmArmed, trainVars, streamVars, peerVars, alarmCalls,
                   stopRequested>>

(***************************************************************************)
(* Signals, signal_handler and Application.shutdown.                       *)
(*                                                                         *)
(* Python runs a signal's handler in the main thread, between two          *)
(* bytecodes or when a blocking call is interrupted.  signal_handler never *)
(* returns: it ends in sys.exit(0), whose SystemExit unwinds the main      *)
(* thread (nothing in it catches SystemExit), so whatever the main thread  *)
(* was doing is abandoned; a handler that interrupts a running handler     *)
(* abandons that one the same way.  Python 2 cannot interrupt a lock       *)
(* acquire without timeout, which is what Future.result() blocks in.       *)
(***************************************************************************)
ThreadAlive == thPc \notin {"idle", "dead"}

\* the main thread has ended and the process exits with `code`
Exited(code) == fgPc = "exited" /\ exitCode = code

HandlersInstalled == fgPc \notin {"main", "exited"}

Interruptible == ~(fgPc = "train_result" /\ task # "done")

\* the user or the OS sends SIGINT or SIGTERM
SendSignal ==
    /\ HandlersInstalled
    /\ signalsSent < MaxSignals
    /\ signalsSent' = signalsSent + 1
    /\ \E sig \in {"SIGINT", "SIGTERM"} : pendingSignals' = pendingSignals \cup {sig}
    /\ UNCHANGED <<fgVars, stop_detection, shutdownVars, alarmArmed, trainVars,
                   streamVars, peerVars, alarmCalls, stopRequested>>

\* the second of signal.alarm(1) is over: SIGALRM
AlarmFires ==
    /\ alarmArmed
    /\ alarmArmed' = FALSE
    /\ pendingSignals' = IF HandlersInstalled THEN pendingSignals \cup {"SIGALRM"}
                         ELSE pendingSignals
    /\ UNCHANGED <<fgVars, stop_detection, shutdownVars, signalsSent, trainVars,
                   streamVars, peerVars, alarmCalls, stopRequested>>

\* stop that flips the flag instead of setting it
stop_Toggle ==
    /\ stop_detection' = ~stop_detection
    /\ stopRequested' = TRUE

\* api_wrapper.py:158  ApiWrapper.stop: self.__stop_detection = True
stop ==
    /\ stop_detection' = TRUE
    /\ stopRequested' = TRUE

\* Application.shutdown, lines 152-155, up to the join: the stop request, the
\* pool's shutdown(wait = False), and the join only if a thread was recorded
shutdown ==
    /\ stop
    /\ executor_shutdown' = TRUE
    /\ joinWaited' = 0
    /\ fgPc' = IF detection_thread # "None" THEN "shutdown_join" ELSE "sys_exit"

\* signal_handler without the test of line 42: app.shutdown() on None raises
\* AttributeError in the handler, and the process ends with exit code 1
signal_handler_NoGuard ==
    /\ HandlersInstalled
    /\ Interruptible
    /\ \E sig \in pendingSignals : pendingSignals' = pendingSignals \ {sig}
    /\ terminal' = Append(terminal, Line("Shutting down..."))
    /\ IF app
       THEN shutdown /\ UNCHANGED <<exitCode, uncaught>>
       ELSE /\ fgPc' = "exited"
            /\ exitCode' = 1
            /\ uncaught' = "AttributeError"
            /\ UNCHANGED <<stop_detection, stopRequested, executor_shutdown,
                           joinWaited>>
    /\ UNCHANGED <<cmd, app, reply, outcome,
                   detection_thread, signalsSent, alarmArmed, trainVars,
                   streamVars, peerVars, alarmCalls>>

\* sample.py:40-43  signal_handler: the message, then app.shutdown() if there is
\* an app.  Nothing in it but the stop flag is shared with another thread.
signal_handler ==
    /\ HandlersInstalled
    /\ Interruptible
    /\ \E sig \in pendingSignals : pendingSignals' = pendingSignals \ {sig}
    /\ terminal' = Append(terminal, Line("Shutting down..."))
    /\ IF app
       THEN shutdown
       ELSE /\ fgPc' = "sys_exit"
            /\ UNCHANGED <<stop_detection, stopRequested, executor_shutdown,
                           joinWaited>>
    /\ UNCHANGED <<cmd, app, reply, outcome, exitCode, uncaught,
                   detection_thread, signalsSent, alarmArmed, trainVars,
                   streamVars, peerVars, alarmCalls>>

\* application.py:155  join(3): a second passes with the thread still alive
JoinTick ==
    /\ fgPc = "shutdown_join"
    /\ ThreadAlive
    /\ joinWaited < JoinTimeout
    /\ joinWaited' = joinWaited + 1
    /\ UNCHANGED <<fgVars, stop_detection, executor_shutdown, detection_thread,
                   signalVars, alarmArmed, trainVars, streamVars, peerVars,
                   alarmCalls, stopRequested>>

\* JoinIsOver for a join without timeout
JoinIsOver_NoTimeout == ~ThreadAlive

\* join(3) is left when the thread has ended or the timeout has passed
JoinIsOver == ~ThreadAlive \/ joinWaited = JoinTimeout

\* application.py:155  join(3) returns, and with it shutdown
JoinReturns ==
    /\ fgPc = "shutdown_join"
    /\ JoinIsOver
    /\ fgPc' = "sys_exit"
    /\ UNCHANGED <<cmd, app, reply, outcome, terminal, exitCode, uncaught,
                   stop_detection, shutdownVars, signalVars, alarmArmed, trainVars,
                   streamVars, peerVars, alarmCalls, stopRequested>>

\* sample.py:44  sys.exit(0)
SysExit ==
    /\ fgPc = "sys_exit"
    /\ fgPc' = "exited"
    /\ exitCode' = 0
    /\ UNCHANGED <<cmd, app, reply, outcome, terminal, uncaught,
                   stop_detection, shutdownVars, signalVars, alarmArmed, trainVars,
                   streamVars, peerVars, alarmCalls, stopRequested>>

(***************************************************************************)
(* The websocket peer.  A frame is [id, text]: the id tells the frames     *)
(* apart, the text is what the peer put in it.  A closed connection shows  *)
(* as the message None (Tornado's read_message resolves to None).          *)
(***************************************************************************)
FrameTexts == {TextDetection, TextEmptyObject, TextHtml}
Closed == PyNone

\* the device pushes one more frame
PeerSendsFrame ==
    /\ socket = "open"
    /\ ~peerClosed
    /\ Len(sent) < MaxFrames
    /\ \E text \in FrameTexts :
          LET frame == [id |-> Len(sent) + 1, text |-> text] IN
          /\ sent' = Append(sent, frame)
          /\ wire' = Append(wire, frame)
    /\ UNCHANGED <<fgVars, stop_detection, shutdownVars, signalVars, alarmArmed,
                   trainVars, streamVars, peerClosed, alarmCalls, stopRequested>>

\* the device closes the connection, or the connection breaks
PeerCloses ==
    /\ socket = "open"
    /\ ~peerClosed
    /\ peerClosed' = TRUE
    /\ wire' = Append(wire, Closed)
    /\ UNCHANGED <<fgVars, stop_detection, shutdownVars, signalVars, alarmArmed,
                   trainVars, streamVars, sent, alarmCalls, stopRequested>>

(***************************************************************************)
(* ApiWrapper.detect.__connect on the stream thread.  The coroutine runs   *)
(* on the thread's IOLoop: the IOLoop handles what arrived on the socket   *)
(* only while the coroutine is suspended in a yield, so the future of      *)
(* read_message changes state only there or in read_message itself.        *)
(***************************************************************************)
\* api_wrapper.py:119  websocket_connect succeeds, or raises and ends the thread
WebsocketConnect ==
    /\ thPc = "connect"
    /\ \/ socket' = "open" /\ thPc' = "connected"
       \/ socket' = socket /\ thPc' = "dead"
    /\ UNCHANGED <<fgVars, stop_detection, shutdownVars, signalVars, alarmArmed,
                   trainVars, message_future, read_queue, calls, sawStop,
                   wakeSinceStop, peerVars, alarmCalls, stopRequested>>

\* Tornado's on_message while the coroutine is suspended (api_wrapper.py:119, 141):
\* the message resolves the pending read, or is queued if none is pending
IOLoopReceive ==
    /\ thPc \in {"connected", "sleep"}
    /\ wire # <<>>
    /\ wire' = Tail(wire)
    /\ IF message_future = PendingFuture
       THEN message_future' = DoneFuture(Head(wire)) /\ read_queue' = read_queue
       ELSE read_queue' = Append(read_queue, Head(wire))
            /\ message_future' = message_future
    /\ UNCHANGED <<fgVars, stop_detection, shutdownVars, signalVars, alarmArmed,
                   trainVars, thPc, socket, calls, sawStop, wakeSinceStop,
                   sent, peerClosed, alarmCalls, stopRequested>>

\* socket.read_message(): the future of the next message, already done if a
\* message is queued
read_message ==
    IF read_queue # <<>>
    THEN message_future' = DoneFuture(Head(read_queue))
         /\ read_queue' = Tail(read_queue)
    ELSE message_future' = PendingFuture /\ read_queue' = read_queue

\* LoopWhile as a do-while: the first pass is entered without the test of the flag
LoopWhile_FirstPassUntested ==
    /\ thPc \in {"connected", "while"}
    /\ IF stop_detection /\ thPc = "while"
       THEN thPc' = "close" /\ sawStop' = TRUE
            /\ UNCHANGED <<message_future, read_queue>>
       ELSE thPc' = "check" /\ sawStop' = sawStop /\ read_message
    /\ UNCHANGED <<fgVars, stop_detection, shutdownVars, signalVars, alarmArmed,
                   trainVars, socket, calls, wakeSinceStop, peerVars, alarmCalls,
                   stopRequested>>

\* api_wrapper.py:122-124  while not self.__stop_detection, and in the loop
\* message_future = socket.read_message(), which touches nothing shared
LoopWhile ==
    /\ thPc \in {"connected", "while"}
    /\ IF stop_detection
       THEN thPc' = "close" /\ sawStop' = TRUE
            /\ UNCHANGED <<message_future, read_queue>>
       ELSE thPc' = "check" /\ sawStop' = sawStop /\ read_message
    /\ UNCHANGED <<fgVars, stop_detection, shutdownVars, signalVars, alarmArmed,
                   trainVars, socket, calls, wakeSinceStop, peerVars, alarmCalls,
                   stopRequested>>

\* InnerLoopBranch with the frame test before the stop test
InnerLoopBranch_FrameBeforeStop(future, stopFlag) ==
    IF future.state = "done" /\ future.result = Closed THEN "closed"
    ELSE IF future.state = "done" THEN "frame"
    ELSE IF stopFlag THEN "stop"
    ELSE "sleep"

\* InnerLoopBranch with the stop test before the test for a lost connection
InnerLoopBranch_StopBeforeClosed(future, stopFlag) ==
    IF stopFlag THEN "stop"
    ELSE IF future.state = "done" /\ future.result = Closed THEN "closed"
    ELSE IF future.state = "done" THEN "frame"
    ELSE "sleep"

\* api_wrapper.py:127-141, the if / if / elif of the inner loop, in the order of
\* the code: which branch is taken for a future and a value of the stop flag
InnerLoopBranch(future, stopFlag) ==
    IF future.state = "done" /\ future.result = Closed THEN "closed"
    ELSE IF stopFlag THEN "stop"
    ELSE IF future.state = "done" THEN "frame"
    ELSE "sleep"

\* ConnectionLost without the call of signal.alarm
ConnectionLost_NoAlarm ==
    /\ stop_detection' = TRUE
    /\ UNCHANGED <<alarmCalls, alarmArmed>>
    /\ thPc' = "while"

\* api_wrapper.py:128-131  the connection is lost: the flag is set, the message
\* printed, signal.alarm(1) called, and the inner loop left
ConnectionLost ==
    /\ stop_detection' = TRUE
    /\ alarmCalls' = alarmCalls + 1
    /\ alarmArmed' = TRUE
    /\ thPc' = "while"

\* api_wrapper.py:125-141  one pass of the inner loop.  The pass reads the stop
\* flag once (line 133) and nothing else the foreground writes.
LoopCheck ==
    /\ thPc = "check"
    /\ LET branch == InnerLoopBranch(message_future, stop_detection) IN
       CASE branch = "closed" -> ConnectionLost /\ UNCHANGED <<calls, sawStop>>
         [] branch = "stop" ->
              \* lines 133-134: break
              /\ sawStop' = TRUE
              /\ thPc' = "while"
              /\ UNCHANGED <<stop_detection, alarmCalls, alarmArmed, calls>>
         [] branch = "frame" ->
              \* lines 137-138: json.loads raises and ends the thread, or the
              \* listener is called with the document
              /\ IF JsonLoads(PyStr(message_future.result.text)).exc # "none"
                 THEN thPc' = "dead" /\ calls' = calls
                 ELSE thPc' = "listener"
                      /\ calls' = Append(calls, message_future.result)
              /\ UNCHANGED <<stop_detection, alarmCalls, alarmArmed, sawStop>>
         [] branch = "sleep" ->
              \* line 141: yield gen.sleep(0.5)
              /\ thPc' = "sleep"
              /\ UNCHANGED <<stop_detection, alarmCalls, alarmArmed, calls, sawStop>>
    /\ UNCHANGED <<fgVars, shutdownVars, signalVars, trainVars, socket,
                   message_future, read_queue, wakeSinceStop, peerVars,
                   stopRequested>>

\* ListenerReturns without the break of line 139: the loop sleeps and then
\* tests the same future again
ListenerReturns_NoBreak ==
    /\ thPc = "listener"
    /\ LET detection_result ==
               JsonLoads(PyStr(message_future.result.text)).value IN
       thPc' = IF GetItem(detection_result, "results").exc # "none"
               THEN "dead" ELSE "sleep"
    /\ UNCHANGED <<fgVars, stop_detection, shutdownVars, signalVars, alarmArmed,
                   trainVars, socket, message_future, read_queue, calls, sawStop,
                   wakeSinceStop, peerVars, alarmCalls, stopRequested>>

\* utils.print_detection, lines 65-67, and the break of api_wrapper.py:139:
\* detection_result['results'] raises and ends the thread, or the result is printed
ListenerReturns ==
    /\ thPc = "listener"
    /\ LET detection_result ==
               JsonLoads(PyStr(message_future.result.text)).value IN
       thPc' = IF GetItem(detection_result, "results").exc # "none"
               THEN "dead" ELSE "while"
    /\ UNCHANGED <<fgVars, stop_detection, shutdownVars, signalVars, alarmArmed,
                   trainVars, socket, message_future, read_queue, calls, sawStop,
                   wakeSinceStop, peerVars, alarmCalls, stopRequested>>

\* api_wrapper.py:141  the half second of gen.sleep is over
LoopWake ==
    /\ thPc = "sleep"
    /\ thPc' = "check"
    /\ wakeSinceStop' = IF stopRequested /\ wakeSinceStop < 2
                        THEN wakeSinceStop + 1 ELSE wakeSinceStop
    /\ UNCHANGED <<fgVars, stop_detection, shutdownVars, signalVars, alarmArmed,
                   trainVars, socket, message_future, read_queue, calls, sawStop,
                   peerVars, alarmCalls, stopRequested>>

\* api_wrapper.py:144-145  socket.close(); the coroutine and the thread end
LoopClose ==
    /\ thPc = "close"
    /\ socket' = "closed"
    /\ thPc' = "dead"
    /\ UNCHANGED <<fgVars, stop_detection, shutdownVars, signalVars, alarmArmed,
                   trainVars, message_future, read_queue, calls, sawStop,
                   wakeSinceStop, peerVars, alarmCalls, stopRequested>>

(***************************************************************************)
(* The specification.                                                      *)
(***************************************************************************)
Foreground ==
    \/ InstallHandlers \/ ParseArguments \/ CreateApplication
    \/ ListProfiles \/ Reset \/ Enable \/ Disable \/ MainReturns
    \/ DelayTick \/ TrainSubmit \/ TimerTick \/ TrainResult
    \/ DetectInitialize \/ DetectStartStream \/ DetectAssign
    \/ signal_handler
    \/ JoinTick \/ JoinReturns \/ SysExit

Worker == WorkerStart \/ WorkerFinish

Stream ==
    \/ WebsocketConnect \/ IOLoopReceive \/ LoopWhile \/ LoopCheck
    \/ ListenerReturns \/ LoopWake \/ LoopClose

Environment == SendSignal \/ AlarmFires \/ PeerSendsFrame \/ PeerCloses

Next == Foreground \/ Worker \/ Stream \/ Environment

Spec == Init /\ [][Next]_vars

(***************************************************************************)
(* The detection stream alone: the process from the point where detect has *)
(* initialized the device and is about to start the stream, with the       *)
(* fairness the scheduling gives.  The main thread is never starved and    *)
(* time passes (the alarm's second, the join's seconds); nothing is        *)
(* assumed of the stream thread, the peer or the user.  Nothing from here  *)
(* on reads the mode, so the stream is started for one of the two.         *)
(***************************************************************************)
InitializedReply == [kind |-> "ok", body |-> PyStr(TextProfiles)]

StreamInit ==
    /\ fgPc = "detect_start"
    /\ cmd = "detect_home"
    /\ app = TRUE
    /\ reply = InitializedReply
    /\ outcome = HttpRequest(Fetch(InitializedReply))
    /\ terminal = detect_initialize(HttpRequest(Fetch(InitializedReply)), "home").lines
    /\ InitRest

StreamNext ==
    \/ DetectStartStream \/ DetectAssign
    \/ signal_handler \/ JoinTick \/ JoinReturns \/ SysExit
    \/ Stream \/ Environment

StreamSpec == StreamInit /\ [][StreamNext]_vars

StreamFair ==
    /\ StreamSpec
    /\ WF_vars(AlarmFires) /\ WF_vars(signal_handler)
    /\ WF_vars(JoinTick) /\ WF_vars(JoinReturns) /\ WF_vars(SysExit)

(***************************************************************************)
(* Properties.                                                             *)
(***************************************************************************)
(***************************************************************************)
(* ApiWrapper on its own, driven by any caller: stop() and detect() are    *)
(* called in any order and at any time, detect again once the thread of    *)
(* the stream before has ended.  The caller is not the Application: the    *)
(* foreground of the sample stays where Init puts it.                      *)
(***************************************************************************)
\* api_wrapper.py:153-158  a caller calls stop()
CallerStop ==
    /\ stop
    /\ UNCHANGED <<fgVars, shutdownVars, signalVars, alarmArmed, trainVars,
                   streamVars, peerVars, alarmCalls>>

\* api_wrapper.py:103-150  a caller calls detect(listener): a new thread runs a
\* new __connect, whose socket and message_future are new locals, on a new
\* connection
CallerDetect ==
    /\ thPc \in {"idle", "dead"}
    /\ thPc' = "connect"
    /\ socket' = "none"
    /\ message_future' = NoFuture
    /\ read_queue' = <<>>
    /\ wire' = <<>>
    /\ peerClosed' = FALSE
    /\ UNCHANGED <<fgVars, stop_detection, shutdownVars, signalVars, alarmArmed,
                   trainVars, calls, sawStop, wakeSinceStop, sent, alarmCalls,
                   stopRequested>>

WrapperNext ==
    \/ CallerStop \/ CallerDetect
    \/ Stream
    \/ AlarmFires \/ PeerSendsFrame \/ PeerCloses

WrapperSpec == Init /\ [][WrapperNext]_vars

IsPrefix(s, t) == Len(s) <= Len(t) /\ \A i \in 1..Len(s) : s[i] = t[i]

InCalls(frame) == \E i \in 1..Len(calls) : calls[i] = frame

\* the loop has seen the lost connection (taken the branch of lines 127-131)
PeerLossObserved ==
    /\ message_future = DoneFuture(Closed)
    /\ thPc \in {"while", "close", "dead"}

\* the error boundary printed an error of this type
Rendered(type) ==
    \E i \in 1..Len(terminal) :
        terminal[i].line = "error" /\ terminal[i].type = type

\* C1: once stop() was requested the read loop ends without another call of the
\* listener: no call of the listener begins after the loop has read the flag as
\* set, nor after a poll wake-up that follows the request (a frame that is
\* available then is dropped); from the read of the flag on the loop only leaves;
\* and the loop wakes from its poll sleep at most once after the request.
C1_StopEndsDelivery ==
    [][ /\ (sawStop \/ wakeSinceStop >= 1) => calls' = calls
        /\ sawStop => thPc' \in {"while", "close", "dead"}
        /\ wakeSinceStop' <= 1 ]_vars

\* C1 witness: stop() was requested while the loop slept, the loop woke once, saw
\* the flag with a frame available, dropped that frame and ended.
C1_Witness ==
    /\ stopRequested /\ sawStop /\ wakeSinceStop = 1
    /\ message_future.state = "done"
    /\ message_future.result # Closed
    /\ ~InCalls(message_future.result)
    /\ thPc = "dead" /\ socket = "closed"

\* C2: a lost connection (the read's future done with None) is never missed and
\* raises the alarm exactly once: the future is done with None only while the loop
\* sleeps or is about to test it, or after the loop took the branch for it; once
\* taken, the stop flag is set and signal.alarm was called exactly once, whether
\* or not stop() had been requested; the thread then ends with the socket closed;
\* and the alarm is raised for nothing else.
C2_ClosureRaisesAlarmOnce ==
    /\ alarmCalls <= 1
    /\ message_future = DoneFuture(Closed)
          => thPc \in {"sleep", "check", "while", "close", "dead"}
    /\ PeerLossObserved => alarmCalls = 1 /\ stop_detection
    /\ (PeerLossObserved /\ thPc = "dead") => socket = "closed"
    /\ alarmCalls = 1 => PeerLossObserved

\* C2 witness: stop() had been requested, the loop woke up after it to a lost
\* connection, raised the alarm once, closed the socket and ended.
C2_Witness ==
    /\ PeerLossObserved /\ thPc = "dead" /\ socket = "closed"
    /\ stopRequested /\ wakeSinceStop = 1
    /\ alarmCalls = 1

\* C3: no API error, local validation error (both AerialException) or
\* transport/socket error (HTTPError, socket.error) leaves a command: each is
\* caught by handle_api_errors and rendered.
C3_ErrorsCaught ==
    uncaught \notin {"AerialException", "HTTPError", "socket.error"}

\* C4: a non-2xx reply with a well-formed error document makes the request raise
\* an AerialException with exactly the type and the message the device sent.
C4_ApiErrorExposed ==
    reply.kind = "api_error"
        => outcome = AerialException(reply.type, reply.message)

\* C4 witness: the device answered "busy" / "Device is busy.", the request raised
\* it and the boundary rendered it.
C4_Witness ==
    /\ reply = [kind |-> "api_error", type |-> "busy", message |-> "Device is busy."]
    /\ outcome.exc = "AerialException"
    /\ fgPc = "main_print"
    /\ Rendered("busy")

\* C5: shutdown always returns: it has requested the stop and shut the pool down
\* before it waits; it waits only for a recorded detection thread, never longer
\* than the timeout of the join; and it leaves the join whether or not the thread
\* has ended.
C5_ShutdownReturns ==
    /\ (fgPc = "shutdown_join") ~> (fgPc \in {"sys_exit", "exited"})
    /\ [](joinWaited <= JoinTimeout)
    /\ [](fgPc \in {"shutdown_join", "sys_exit"}
             => stop_detection /\ executor_shutdown)
    /\ [](fgPc = "shutdown_join" => detection_thread = "thread")

\* C5 witness: the join timed out and shutdown returned with the stream thread
\* still alive.
C5_Witness ==
    /\ fgPc = "sys_exit"
    /\ detection_thread = "thread"
    /\ ThreadAlive
    /\ joinWaited = JoinTimeout

\* a successful reply whose body is empty or a JSON document without "profiles"
LacksProfiles(r) ==
    /\ r.kind = "ok"
    /\ r.body \in {PyNone, PyStr(""), PyStr(TextEmptyObject), PyStr(TextEmptyList),
                   PyStr(TextDate), PyStr(TextProfileList)}

\* C6: when the initialize response lacks "profiles", detect renders a local
\* unknown_error and starts no stream.
C6_MissingProfilesRendered ==
    (cmd \in {"detect_home", "detect_room"} /\ LacksProfiles(reply))
        => /\ Rendered("unknown_error")
           /\ uncaught = "none"
           /\ thPc = "idle"
           /\ detection_thread = "None"
           /\ fgPc \notin {"detect_start", "detect_assign", "pause"}

\* C7: the listener is called with the frames in the order the peer sent them,
\* each at most once and none skipped: the calls are a prefix of the frames sent;
\* the call in progress is the last one recorded, for the frame just read; and a
\* loop that ends on the lost connection has delivered every frame sent before it.
C7_OrderedDelivery ==
    /\ IsPrefix(calls, sent)
    /\ thPc = "listener"
          => /\ calls # <<>>
             /\ calls[Len(calls)] = message_future.result
    /\ PeerLossObserved => calls = sent

\* C7 witness: two frames were sent, delivered in order, and the loop ended on
\* the lost connection.
C7_Witness ==
    /\ Len(sent) = 2 /\ calls = sent
    /\ PeerLossObserved /\ thPc = "dead"

\* C8: however the stream thread ended, a websocket that was opened is closed.
C8_SocketClosedOnExit ==
    (thPc = "dead" /\ socket # "none") => socket = "closed"

\* C9: once the loop has seen the lost connection, the process ends with exit
\* code 0: the alarm reaches signal_handler wherever the foreground is.
C9_PeerLossEndsProcess == PeerLossObserved ~> Exited(0)

\* C9 witness: no user signal was sent; the alarm alone ended the process, with
\* the detection thread recorded (the foreground had reached its wait or was
\* about to).
C9_Witness ==
    /\ PeerLossObserved /\ alarmCalls = 1
    /\ signalsSent = 0
    /\ detection_thread = "thread"
    /\ Exited(0)

\* C10: a 2xx reply with an empty body makes the request return None.
C10_EmptyBodyReturnsNone ==
    (reply.kind = "ok" /\ reply.body \in {PyNone, PyStr("")})
        => outcome = Returned(PyNone)

\* C10 witness: reset got a 2xx reply with an empty body and printed its
\* confirmation.
C10_Witness ==
    /\ cmd = "reset"
    /\ reply = [kind |-> "ok", body |-> PyStr("")]
    /\ outcome = Returned(PyNone)
    /\ fgPc = "main_print"
    /\ uncaught = "none"

\* C11: a 2xx reply with a body that is not empty makes the request raise an
\* AerialException of type malformed_response when the body is not JSON, and
\* return the document the body denotes when it is.
C11_MalformedOrParsed ==
    (reply.kind = "ok" /\ reply.body \notin {PyNone, PyStr("")})
        => IF reply.body.s \in JsonErrorTexts \cup JsonOtherTexts
           THEN outcome = Returned(JsonDocument(reply.body.s))
           ELSE /\ outcome.exc = "AerialException"
                /\ outcome.type = "malformed_response"

\* C11 witness: list got a 2xx reply that is an HTML page, the request raised
\* malformed_response and the boundary rendered it.
C11_Witness ==
    /\ cmd = "list"
    /\ reply = [kind |-> "ok", body |-> PyStr(TextHtml)]
    /\ outcome.exc = "AerialException"
    /\ outcome.type = "malformed_response"
    /\ Rendered("malformed_response")
    /\ fgPc = "main_print"

\* the confirmation of Application.train (application.py:94) was printed
TrainConfirmed ==
    \E i \in 1..Len(terminal) : terminal[i].line = "trained"

\* the foreground reads the result of the train call: task.result() returns or
\* raises, and the command ends
TrainResultRead ==
    fgPc = "train_result" /\ fgPc' \in {"main_print", "exited"}

\* C12: the countdown of train runs while the call runs on the worker: it counts
\* one second per tick, goes on only while the task is running and stops at the
\* first tick that finds the call finished; the confirmation is printed only for
\* a call that returned a result; and an error the call raised on the worker
\* comes up where the foreground reads the result, where it is rendered and no
\* confirmation is printed.
C12_TimerAndResult ==
    [][ /\ (fgPc = "train_timer" /\ fgPc' = "train_timer" /\ step' # step)
            => task = "running" /\ step' = step - 1
        /\ (fgPc = "train_timer" /\ task = "done") => step' = step
        /\ TrainConfirmed'
            => cmd = "train" /\ outcome.exc = "none" /\ outcome.value # PyNone
        /\ (TrainResultRead /\ outcome.exc # "none")
            => /\ ~TrainConfirmed'
               /\ uncaught' = "none"
               /\ \E i \in 1..Len(terminal') : terminal'[i].line = "error" ]_vars

\* a step in which ApiWrapper.stop is called: signal_handler runs with an app
StopCalled ==
    /\ app
    /\ \E sig \in pendingSignals : pendingSignals' = pendingSignals \ {sig}

\* the handler ran `n` times at least (each run prints its message first)
HandlerRuns(n) ==
    Cardinality({i \in 1..Len(terminal) :
                    terminal[i] = Line("Shutting down...")}) >= n

\* C13: every call of ApiWrapper.stop leaves the stop flag set, a call with the
\* flag already set changes nothing of the client, no call touches the stream
\* (its position, socket, pending read, deliveries, alarm), with or without a
\* stream started, and the call is over in the step it is made in, with the loop
\* wherever it was.
C13_StopIdempotent ==
    [][ StopCalled
          => /\ stop_detection'
             /\ stopRequested'
             /\ stop_detection => stop_detection' = stop_detection
             /\ UNCHANGED <<streamVars, peerVars, alarmCalls, alarmArmed,
                            detection_thread>> ]_vars

\* C13 witness: stop was called twice, the second time with the flag set, and
\* both calls are over while the stream thread has yet to read the flag at the
\* head of its loop, the socket still open.
C13_Witness ==
    /\ HandlerRuns(2)
    /\ app /\ stopRequested /\ stop_detection
    /\ thPc = "while" /\ ~sawStop /\ socket = "open"

\* a step in which signal_handler starts for a signal
HandlerStep ==
    \E sig \in pendingSignals : pendingSignals' = pendingSignals \ {sig}

\* the main thread is inside signal_handler
InHandler == fgPc \in {"shutdown_join", "sys_exit"}

\* C14: a signal that reaches its handler ends the process with exit code 0,
\* wherever the main thread was.  The handler starts for a pending signal unless
\* the main thread is blocked in task.result(), which the worker ends; it calls
\* shutdown exactly if the app exists; from there the main thread can always go
\* on, only towards sys.exit(0), and the process it ends has exit code 0.  A run
\* that ends with no exception out of its command has exit code 0 as well.
C14_SignalExitsZero ==
    /\ []((fgPc = "exited" /\ (uncaught = "none" \/ HandlerRuns(1)))
             => exitCode = 0)
    /\ []((pendingSignals # {} /\ HandlersInstalled)
             => \/ ENABLED signal_handler
                \/ fgPc = "train_result" /\ ENABLED (WorkerStart \/ WorkerFinish))
    /\ [](InHandler => ENABLED (JoinTick \/ JoinReturns \/ SysExit))
    /\ [][ /\ HandlerStep
               => /\ InHandler'
                  /\ app <=> (executor_shutdown' /\ stop_detection' /\ stopRequested')
                  /\ ~app => ~executor_shutdown'
           /\ InHandler
               => /\ fgPc' \in {"shutdown_join", "sys_exit", "exited"}
                  /\ fgPc' = "exited" => exitCode' = 0 ]_vars

\* C14 witness: a signal arrived before the app existed; the handler ran without
\* shutdown and the process exited with code 0.
C14_Witness ==
    /\ ~app /\ HandlerRuns(1)
    /\ ~executor_shutdown /\ ~stopRequested
    /\ Exited(0)

\* C15: an HTTP error with no response, or whose body is no well-formed error
\* document (not a string, not JSON, JSON of another shape), leaves the request
\* as the HTTPError that fetch raised: not as an AerialException, and not as the
\* TypeError, ValueError, KeyError or AttributeError the conversion ran into.
C15_TransportErrorAsIs ==
    reply.kind \in {"http_error", "timeout"} => outcome = Raised("HTTPError")

\* C15 witness: the device answered a non-2xx status with {"error": {"type":
\* "busy"}}, without message; the lookup of the message failed and the HTTPError
\* left the request and the command.
C15_Witness ==
    /\ reply = [kind |-> "http_error", body |-> PyStr(TextErrorNoMessage)]
    /\ ConvertError(Fetch(reply).response) = Raised("KeyError")
    /\ outcome = Raised("HTTPError")
    /\ uncaught = "HTTPError"

\* C16: the stop flag starts false and never goes back to false; it is set only
\* by a call of stop() or by the loop on a lost connection; and a stream that
\* finds it set when its connect completes, whenever it was set before (before
\* detect was called, during the connect, by a stream before it), goes from the
\* connect straight to the close: no read is issued, the listener is not called,
\* no alarm is raised, and the thread ends with the socket closed.
C16_StopFlagMonotonic ==
    /\ ~stop_detection
    /\ [][ /\ stop_detection => stop_detection'
           /\ (~stop_detection /\ stop_detection')
                => \/ stopRequested' /\ ~stopRequested
                   \/ alarmCalls' = alarmCalls + 1 /\ thPc = "check"
           /\ (stop_detection /\ thPc \in {"idle", "dead", "connect", "connected", "close"})
                => /\ calls' = calls
                   /\ alarmCalls' = alarmCalls
                   /\ thPc' # "check"
           /\ (stop_detection /\ thPc = "connected")
                => /\ thPc' \in {"connected", "close"}
                   /\ message_future' = NoFuture
           /\ thPc = "close"
                => /\ thPc' \in {"close", "dead"}
                   /\ thPc' = "dead" => socket' = "closed" ]_vars

\* C16 witness: a first stream lost its connection, which set the flag and
\* raised the alarm; a second stream started on the same client connected, issued
\* no read, called the listener for nothing more and ended with its socket closed.
C16_Witness ==
    /\ alarmCalls = 1 /\ ~stopRequested /\ stop_detection
    /\ thPc = "dead" /\ socket = "closed"
    /\ message_future = NoFuture
    /\ sawStop

\* C17: train reads the result, prints its confirmation and returns only when
\* the submitted call has finished.  When the countdown ends first (all ticks
\* gone, or the task found not running because it had not started) the
\* foreground waits in task.result(): it takes no step, not even for a signal,
\* until the worker is done.
C17_TrainWaitsForCall ==
    /\ [](TrainConfirmed => task = "done")
    /\ []((cmd = "train" /\ fgPc = "main_print") => task = "done")
    /\ []((fgPc = "train_result" /\ task # "done")
             => /\ ~ENABLED TrainResult
                /\ ~ENABLED signal_handler
                /\ ENABLED (WorkerStart \/ WorkerFinish))
    /\ [][ /\ TrainResultRead => task = "done"
           /\ (fgPc = "train_result" /\ task # "done") => fgPc' = fgPc ]_vars

\* C17 witness: the first tick found the task not running because no worker had
\* taken it yet; the countdown ended there, the worker then started, and the
\* foreground is blocked while the call runs.
C17_Witness ==
    /\ fgPc = "train_result"
    /\ step = TimerDuration
    /\ task = "running"

=============================================================================
